---- MODULE Spec2Model ----
(***************************************************************************)
(* Model of client/contexts/PrivilegedSettingsContext.ts: the action       *)
(* facades built on the privileged settings context (save / cancel per     *)
(* group, reset per section, debounced update / reset per setting).        *)
(*                                                                         *)
(* The context value itself (getSettingsGroup, getSettingsSection,         *)
(* querySetting, dispatch, dispatchToEditableSettings) is supplied by a    *)
(* provider that is not part of this file; those operators are modelled    *)
(* from the written specification and are marked as such.                  *)
(***************************************************************************)
EXTENDS Integers, Sequences, FiniteSets, TLC

(* ---------------------------------------------------------------------- *)
(* Values                                                                  *)
(* ---------------------------------------------------------------------- *)

\* The JavaScript value `undefined` (a missing field, a missing record).
Undefined == "undefined"

\* Setting ids, in hierarchy order, and the groups that own them.
Ids == <<"Language", "Color", "Other">>
IdSet == {Ids[i] : i \in 1..Len(Ids)}
Groups == {"General", "Layout"}

GroupOf(id) == IF id = "Other" THEN "Layout" ELSE "General"
SectionOf(id) == IF id = "Other" THEN "Misc" ELSE ""
Disabled(id) == id = "Color"

\* The values and editors a setting can take (strings; "" is a legal value).
ValuesOf(id) ==
  CASE id = "Language" -> {"", "pt"}
    [] id = "Color" -> {"red", "blue"}
    [] OTHER -> {"x", "y"}
EditorsOf(id) == IF id = "Color" THEN {"color", "expression"} ELSE {Undefined}

\* Immutable factory defaults of a setting.
PackageValue(id) ==
  CASE id = "Language" -> ""
    [] id = "Color" -> "red"
    [] OTHER -> "x"
PackageEditor(id) == IF id = "Color" THEN "color" ELSE Undefined

\* The records the external sync is seen to remove: a group and a setting.
Removable == {"General", "Color"}

\* The current-user language supplied by the session (user?.language).
UserLanguages == {Undefined, "", "fr"}

(* ---------------------------------------------------------------------- *)
(* Bounds                                                                  *)
(* ---------------------------------------------------------------------- *)

\* Debounce timers that may be pending at the same time.
MaxPending == 2
\* Persisted records the external sync may remove during a run.
MaxRemoved == 1
\* Facade calls (update, reset, cancel, save) and teardowns made during a run.
MaxCalls == 3

VARIABLES
  records,        \* ids (settings and groups) that have a persisted record
  persisted,      \* persisted (value, editor) per setting id
  overlay,        \* editable overlay entry (value, editor, changed) per id
  pendingUpdate,  \* per id: the patch of the pending debounced update
  pendingReset,   \* per id: a debounced reset is pending
  mounted,        \* per id: the owner of the setting's facade is subscribed
  pc,             \* position of the save() invocation
  saveGroup,      \* group of the save() invocation
  userLanguage,   \* user?.language as line 141 reads it (undefined when not read)
  changes,        \* the batch computed by the save() invocation
  dispatched,     \* batches handed to dispatch() by the invocation
  loadCalls,      \* arguments of loadLanguage() calls of the invocation
  loadCompleted,  \* number of loadLanguage() calls that completed
  toasts,         \* notifications emitted by the invocation, in order
  changedAtInvoke,\* history: the ids whose changed flag was true at invocation
  calls,          \* facade calls and teardowns made so far
  made,           \* history: how often each facade was called, per target
  mutations,      \* history: number of dispatchToEditableSettings calls
  skipped         \* history: number of patches without an id handed over

saveVars == <<pc, saveGroup, userLanguage, changes, dispatched, loadCalls, loadCompleted,
             toasts, changedAtInvoke>>
vars == <<records, persisted, overlay, pendingUpdate, pendingReset, mounted,
         saveVars, calls, made, mutations, skipped>>

(* ---------------------------------------------------------------------- *)
(* Pure helpers                                                            *)
(* ---------------------------------------------------------------------- *)

\* JSON.stringify on the values of the model: undefined stays undefined,
\* a string is quoted.
JSONstringify(v) == IF v = Undefined THEN Undefined ELSE "\"" \o v \o "\""

\* JavaScript truthiness of a string-or-undefined value (operand of ||).
Truthy(v) == v # Undefined /\ v # ""

\* Array.prototype.map
MapSeq(f(_), s) == [i \in 1..Len(s) |-> f(s[i])]

\* The facade calls the history counts: <<facade, target>>.
CallKeys ==
  ({"update", "reset", "unmount"} \X IdSet) \cup ({"sectionReset", "cancel", "save"} \X Groups)

\* The empty debounce slot.
None == [pending |-> FALSE, value |-> Undefined, editor |-> Undefined]

NumPending ==
  Cardinality({id \in IdSet : pendingUpdate[id].pending})
  + Cardinality({id \in IdSet : pendingReset[id]})

(* ---------------------------------------------------------------------- *)
(* The context value (provider side)                                       *)
(* ---------------------------------------------------------------------- *)

\* An overlay entry seeded from the persisted record: changed = false.
Seeded(rec) == [value |-> rec.value, editor |-> rec.editor, changed |-> FALSE]

\* getEditableSetting(_id): the overlay entry with the static fields.
EditableSetting(id) ==
  [_id |-> id,
   value |-> overlay[id].value,
   editor |-> overlay[id].editor,
   changed |-> overlay[id].changed,
   disabled |-> Disabled(id),
   packageValue |-> PackageValue(id),
   packageEditor |-> PackageEditor(id)]

\* getSettingsGroup(groupId)?.editableSettings ?? []
GroupEditableSettings(g) ==
  IF g \in records
    THEN MapSeq(EditableSetting, SelectSeq(Ids, LAMBDA id : GroupOf(id) = g))
    ELSE << >>

\* getSettingsSection(groupId, sectionName)?.editableSettings
SectionEditableSettings(g, s) ==
  MapSeq(EditableSetting,
         SelectSeq(Ids, LAMBDA id : GroupOf(id) = g /\ SectionOf(id) = s))

\* dispatchToEditableSettings: one patch merged into the overlay. A patch
\* without a known _id stores nothing; fields that are undefined are left.
ApplyPatch(ov, p) ==
  IF p._id \notin DOMAIN ov
    THEN ov
    ELSE [ov EXCEPT ![p._id] =
            [value |-> IF p.value # Undefined THEN p.value ELSE @.value,
             editor |-> IF p.editor # Undefined THEN p.editor ELSE @.editor,
             changed |-> p.changed]]

RECURSIVE ApplyPatches(_, _)
ApplyPatches(ov, patches) ==
  IF patches = << >>
    THEN ov
    ELSE ApplyPatches(ApplyPatch(ov, Head(patches)), Tail(patches))

\* dispatch(changes) can succeed only for a batch whose records all exist.
CanPersist(batch) == \A i \in 1..Len(batch) : batch[i]._id \in records

\* dispatch(changes) succeeded: the persistence collaborator stores the batch
\* in the setting records.
RECURSIVE PersistChanges(_, _)
PersistChanges(per, batch) ==
  IF batch = << >>
    THEN per
    ELSE LET c == Head(batch)
         IN PersistChanges([per EXCEPT ![c._id] = [value |-> c.value, editor |-> c.editor]],
                           Tail(batch))

\* The overlay after the records of a stored batch changed: the entries of
\* the affected ids are seeded again from their records (changed = false).
SyncOverlay(ov, per, batch) ==
  [id \in IdSet |->
     IF \E i \in 1..Len(batch) : batch[i]._id = id
       THEN Seeded(per[id])
       ELSE ov[id]]

(* ---------------------------------------------------------------------- *)
(* usePrivilegedSettingsGroupActions                                       *)
(* ---------------------------------------------------------------------- *)

\* save without the filter on changed: every member is submitted.
SaveChanges_All(g) ==
  MapSeq(LAMBDA e : [_id |-> e._id, value |-> e.value, editor |-> e.editor],
         GroupEditableSettings(g))

\* save with the filter negated: the unchanged members are submitted.
SaveChanges_Unchanged(g) ==
  MapSeq(LAMBDA e : [_id |-> e._id, value |-> e.value, editor |-> e.editor],
         SelectSeq(GroupEditableSettings(g), LAMBDA e : ~e.changed))

\* save, lines 129-131: the changed members projected to {_id, value, editor}
SaveChanges(g) ==
  MapSeq(LAMBDA e : [_id |-> e._id, value |-> e.value, editor |-> e.editor],
         SelectSeq(GroupEditableSettings(g), LAMBDA e : e.changed))

\* The test of line 140 spelt with another id: never true.
HasLanguage_Never(batch) == \E i \in 1..Len(batch) : batch[i]._id = "language"

\* save, line 140
HasLanguage(batch) == \E i \in 1..Len(batch) : batch[i]._id = "Language"

\* save, line 142: changes.filter(({ _id }) => _id === 'Language').shift()?.value
LanguageValue(batch) ==
  LET ls == SelectSeq(batch, LAMBDA c : c._id = "Language")
  IN IF ls = << >> THEN Undefined ELSE Head(ls).value

\* The operands of lines 141-143 in another order: dispatched value first.
Lng_DispatchedFirst(user, batch) ==
  IF Truthy(LanguageValue(batch)) THEN LanguageValue(batch)
  ELSE IF Truthy(user) THEN user
  ELSE "en"

\* save, lines 141-143
Lng(user, batch) ==
  IF Truthy(user) THEN user
  ELSE IF Truthy(LanguageValue(batch)) THEN LanguageValue(batch)
  ELSE "en"

\* cancel without the test of lines 162-164: a patch is built for a member
\* whose record is missing too.
CancelPatch_NoCheck(e) ==
  [_id |-> e._id,
   value |-> persisted[e._id].value,
   editor |-> persisted[e._id].editor,
   changed |-> FALSE]

\* cancel reverting to the package defaults instead of the persisted record.
CancelPatch_Package(e) ==
  IF e._id \notin records
    THEN [_id |-> Undefined, value |-> Undefined, editor |-> Undefined, changed |-> FALSE]
    ELSE [_id |-> e._id,
          value |-> e.packageValue,
          editor |-> e.packageEditor,
          changed |-> FALSE]

\* cancel, lines 160-172: the patch for one changed member
CancelPatch(e) ==
  IF e._id \notin records
    THEN [_id |-> Undefined, value |-> Undefined, editor |-> Undefined, changed |-> FALSE]
    ELSE [_id |-> e._id,
          value |-> persisted[e._id].value,
          editor |-> persisted[e._id].editor,
          changed |-> FALSE]

\* cancel, lines 157-173
CancelPatches(g) ==
  MapSeq(CancelPatch, SelectSeq(GroupEditableSettings(g), LAMBDA e : e.changed))

(* ---------------------------------------------------------------------- *)
(* usePrivilegedSettingsSectionActions                                     *)
(* ---------------------------------------------------------------------- *)

\* The changed flag of the section-level reset computed as the setting-level
\* reset computes it: package defaults against the persisted record.
SectionResetPatch_AgainstPersisted(e) ==
  [_id |-> e._id,
   value |-> e.packageValue,
   editor |-> e.packageEditor,
   changed |-> (JSONstringify(e.packageValue) # JSONstringify(persisted[e._id].value)
                \/ JSONstringify(e.packageEditor) # JSONstringify(persisted[e._id].editor))]

\* reset, lines 205-212: the patch for one enabled member
SectionResetPatch(e) ==
  [_id |-> e._id,
   value |-> e.packageValue,
   editor |-> e.packageEditor,
   changed |-> (JSONstringify(e.value) # JSONstringify(e.packageValue)
                \/ JSONstringify(e.editor) # JSONstringify(e.packageEditor))]

\* The section reset without the filter of line 204: disabled members are
\* patched too.
SectionResetPatches_All(g, s) ==
  MapSeq(SectionResetPatch, SectionEditableSettings(g, s))

\* reset, lines 203-212
SectionResetPatches(g, s) ==
  MapSeq(SectionResetPatch,
         SelectSeq(SectionEditableSettings(g, s), LAMBDA e : ~e.disabled))

(* ---------------------------------------------------------------------- *)
(* usePrivilegedSettingActions                                             *)
(* ---------------------------------------------------------------------- *)

\* update, lines 244-251: the patch built when the debounce timer fires
UpdatePatch(id, value, editor) ==
  [_id |-> id,
   value |-> value,
   editor |-> editor,
   changed |-> (JSONstringify(persisted[id].value) # JSONstringify(value)
                \/ JSONstringify(persisted[id].editor) # JSONstringify(editor))]

\* The changed flag of the setting-level reset computed as the section-level
\* reset computes it: from the overlay before the reset.
ResetPatch_FromOverlay(id) ==
  [_id |-> id,
   value |-> PackageValue(id),
   editor |-> PackageEditor(id),
   changed |-> (JSONstringify(overlay[id].value) # JSONstringify(PackageValue(id))
                \/ JSONstringify(overlay[id].editor) # JSONstringify(PackageEditor(id)))]

\* reset, lines 260-267
ResetPatch(id) ==
  [_id |-> id,
   value |-> PackageValue(id),
   editor |-> PackageEditor(id),
   changed |-> (JSONstringify(PackageValue(id)) # JSONstringify(persisted[id].value)
                \/ JSONstringify(PackageEditor(id)) # JSONstringify(persisted[id].editor))]

(* ---------------------------------------------------------------------- *)
(* Initial state                                                           *)
(* ---------------------------------------------------------------------- *)

\* Every record is present; the overlay is seeded from the persisted records;
\* no timer is pending and no save is running.
Init ==
  /\ records = IdSet \cup Groups
  /\ \E language \in ValuesOf("Language") :
       persisted = [id \in IdSet |->
                      CASE id = "Language" -> [value |-> language, editor |-> Undefined]
                        [] id = "Color" -> [value |-> "blue", editor |-> "color"]
                        [] OTHER -> [value |-> "x", editor |-> Undefined]]
  /\ overlay = [id \in IdSet |-> Seeded(persisted[id])]
  /\ pendingUpdate = [id \in IdSet |-> None]
  /\ pendingReset = [id \in IdSet |-> FALSE]
  /\ mounted = [id \in IdSet |-> TRUE]
  /\ pc = "idle"
  /\ saveGroup = "General"
  /\ userLanguage = Undefined
  /\ changes = << >>
  /\ dispatched = << >>
  /\ loadCalls = << >>
  /\ loadCompleted = 0
  /\ toasts = << >>
  /\ changedAtInvoke = {}
  /\ calls = 0
  /\ made = [k \in CallKeys |-> 0]
  /\ mutations = 0
  /\ skipped = 0

(* ---------------------------------------------------------------------- *)
(* Debounced setting actions                                               *)
(* ---------------------------------------------------------------------- *)

\* One debounce timer shared by every setting: a call for one id cancels the
\* pending updates of the other ids.
UpdateCall_Global(id, value, editor) ==
  /\ mounted[id]
  /\ calls < MaxCalls
  /\ value # Undefined \/ editor # Undefined
  /\ pendingUpdate' = [x \in IdSet |->
                         IF x = id
                           THEN [pending |-> TRUE, value |-> value, editor |-> editor]
                           ELSE None]
  /\ pendingUpdate[id].pending \/ NumPending < MaxPending
  /\ calls' = calls + 1
  /\ made' = [made EXCEPT ![<<"update", id>>] = @ + 1]
  /\ UNCHANGED <<mutations, skipped, mounted, records, persisted, overlay, pendingReset, saveVars>>

\* A leading-edge debounce: a call made while the timer is pending keeps the
\* arguments of the first call of the burst.
UpdateCall_Leading(id, value, editor) ==
  /\ mounted[id]
  /\ calls < MaxCalls
  /\ value # Undefined \/ editor # Undefined
  /\ pendingUpdate' = IF pendingUpdate[id].pending
                        THEN pendingUpdate
                        ELSE [pendingUpdate EXCEPT ![id] =
                                [pending |-> TRUE, value |-> value, editor |-> editor]]
  /\ pendingUpdate[id].pending \/ NumPending < MaxPending
  /\ calls' = calls + 1
  /\ made' = [made EXCEPT ![<<"update", id>>] = @ + 1]
  /\ UNCHANGED <<mutations, skipped, mounted, records, persisted, overlay, pendingReset, saveVars>>

\* update({ value, editor }) is called: the debounce timer is (re)started
\* with the arguments of this call.
UpdateCall(id, value, editor) ==
  /\ mounted[id]
  /\ calls < MaxCalls
  /\ value # Undefined \/ editor # Undefined
  /\ pendingUpdate' = [pendingUpdate EXCEPT ![id] =
                         [pending |-> TRUE, value |-> value, editor |-> editor]]
  /\ pendingUpdate[id].pending \/ NumPending < MaxPending
  /\ calls' = calls + 1
  /\ made' = [made EXCEPT ![<<"update", id>>] = @ + 1]
  /\ UNCHANGED <<mutations, skipped, mounted, records, persisted, overlay, pendingReset, saveVars>>

\* An update timer that is held back while a save() is running.
UpdateFire_AfterSave(id) ==
  /\ pc = "idle"
  /\ pendingUpdate[id].pending
  /\ pendingUpdate' = [pendingUpdate EXCEPT ![id] = None]
  /\ overlay' = IF id \notin records
                  THEN overlay
                  ELSE ApplyPatches(overlay,
                         <<UpdatePatch(id, pendingUpdate[id].value, pendingUpdate[id].editor)>>)
  /\ mutations' = IF id \notin records THEN mutations ELSE mutations + 1
  /\ UNCHANGED <<skipped, mounted, calls, made, records, persisted, pendingReset, saveVars>>

\* The update timer without the test of lines 239-242: the patch is applied
\* whether or not the record exists.
UpdateFire_NoCheck(id) ==
  /\ pendingUpdate[id].pending
  /\ pendingUpdate' = [pendingUpdate EXCEPT ![id] = None]
  /\ overlay' = ApplyPatches(overlay,
                   <<UpdatePatch(id, pendingUpdate[id].value, pendingUpdate[id].editor)>>)
  /\ mutations' = mutations + 1
  /\ UNCHANGED <<skipped, mounted, calls, made, records, persisted, pendingReset, saveVars>>

\* The update timer fires: lines 238-251.
UpdateFire(id) ==
  /\ pendingUpdate[id].pending
  /\ pendingUpdate' = [pendingUpdate EXCEPT ![id] = None]
  /\ overlay' = IF id \notin records
                  THEN overlay
                  ELSE ApplyPatches(overlay,
                         <<UpdatePatch(id, pendingUpdate[id].value, pendingUpdate[id].editor)>>)
  /\ mutations' = IF id \notin records THEN mutations ELSE mutations + 1
  /\ UNCHANGED <<skipped, mounted, calls, made, records, persisted, pendingReset, saveVars>>

\* reset() of a setting is called: the debounce timer is (re)started.
ResetCall(id) ==
  /\ mounted[id]
  /\ calls < MaxCalls
  /\ calls' = calls + 1
  /\ made' = [made EXCEPT ![<<"reset", id>>] = @ + 1]
  /\ pendingReset[id] \/ NumPending < MaxPending
  /\ pendingReset' = [pendingReset EXCEPT ![id] = TRUE]
  /\ UNCHANGED <<mutations, skipped, mounted, records, persisted, overlay, pendingUpdate, saveVars>>

\* The reset timer fires: lines 254-267.
ResetFire(id) ==
  /\ pendingReset[id]
  /\ pendingReset' = [pendingReset EXCEPT ![id] = FALSE]
  /\ overlay' = IF id \notin records
                  THEN overlay
                  ELSE ApplyPatches(overlay, <<ResetPatch(id)>>)
  /\ mutations' = IF id \notin records THEN mutations ELSE mutations + 1
  /\ UNCHANGED <<skipped, mounted, calls, made, records, persisted, pendingUpdate, saveVars>>

\* A fire-and-forget debounce: the teardown of the owner leaves the timers
\* running.
Unmount_KeepsTimers(id) ==
  /\ mounted[id]
  /\ pendingUpdate[id].pending \/ pendingReset[id]
  /\ calls < MaxCalls
  /\ calls' = calls + 1
  /\ made' = [made EXCEPT ![<<"unmount", id>>] = @ + 1]
  /\ mounted' = [mounted EXCEPT ![id] = FALSE]
  /\ UNCHANGED <<pendingUpdate, pendingReset, records, persisted, overlay, saveVars, mutations, skipped>>

\* The owner of the facade of a setting unsubscribes while a call is pending:
\* the pending timers of its debounced update and reset are cancelled.
Unmount(id) ==
  /\ mounted[id]
  /\ pendingUpdate[id].pending \/ pendingReset[id]
  /\ calls < MaxCalls
  /\ calls' = calls + 1
  /\ made' = [made EXCEPT ![<<"unmount", id>>] = @ + 1]
  /\ mounted' = [mounted EXCEPT ![id] = FALSE]
  /\ pendingUpdate' = [pendingUpdate EXCEPT ![id] = None]
  /\ pendingReset' = [pendingReset EXCEPT ![id] = FALSE]
  /\ UNCHANGED <<records, persisted, overlay, saveVars, mutations, skipped>>

(* ---------------------------------------------------------------------- *)
(* Section and group actions                                               *)
(* ---------------------------------------------------------------------- *)

\* reset() of a section: lines 195-214.
SectionReset(g, s) ==
  /\ calls < MaxCalls
  /\ calls' = calls + 1
  /\ made' = [made EXCEPT ![<<"sectionReset", g>>] = @ + 1]
  /\ overlay' = IF g \notin records
                  THEN overlay
                  ELSE ApplyPatches(overlay, SectionResetPatches(g, s))
  /\ mutations' = IF g \notin records THEN mutations ELSE mutations + 1
  /\ UNCHANGED <<skipped, mounted, records, persisted, pendingUpdate, pendingReset, saveVars>>

\* cancel() of a group: lines 156-174.
Cancel(g) ==
  /\ calls < MaxCalls
  /\ calls' = calls + 1
  /\ made' = [made EXCEPT ![<<"cancel", g>>] = @ + 1]
  /\ overlay' = ApplyPatches(overlay, CancelPatches(g))
  /\ mutations' = mutations + 1
  /\ skipped' = skipped + Len(SelectSeq(CancelPatches(g), LAMBDA p : p._id = Undefined))
  /\ UNCHANGED <<mounted, records, persisted, pendingUpdate, pendingReset, saveVars>>

\* save() without the early return of lines 133-135: an empty batch is
\* dispatched too.
SaveInvoke_NoEarlyReturn(g, user) ==
  /\ calls < MaxCalls
  /\ calls' = calls + 1
  /\ made' = [made EXCEPT ![<<"save", g>>] = @ + 1]
  /\ pc = "idle"
  /\ saveGroup' = g
  /\ userLanguage' = IF HasLanguage(SaveChanges(g)) THEN user ELSE Undefined
  /\ changes' = SaveChanges(g)
  /\ changedAtInvoke' = {id \in IdSet : overlay[id].changed}
  /\ pc' = "dispatching"
  /\ dispatched' = Append(dispatched, SaveChanges(g))
  /\ UNCHANGED <<mutations, skipped, mounted, records, persisted, overlay, pendingUpdate, pendingReset,
                 loadCalls, loadCompleted, toasts>>

\* save() of a group is invoked: lines 129-138, up to the await of dispatch.
SaveInvoke(g, user) ==
  /\ calls < MaxCalls
  /\ calls' = calls + 1
  /\ made' = [made EXCEPT ![<<"save", g>>] = @ + 1]
  /\ pc = "idle"
  /\ saveGroup' = g
  /\ userLanguage' = IF HasLanguage(SaveChanges(g)) THEN user ELSE Undefined
  /\ changes' = SaveChanges(g)
  /\ changedAtInvoke' = {id \in IdSet : overlay[id].changed}
  /\ IF Len(SaveChanges(g)) = 0
       THEN /\ pc' = "done"
            /\ dispatched' = dispatched
       ELSE /\ pc' = "dispatching"
            /\ dispatched' = Append(dispatched, SaveChanges(g))
  /\ UNCHANGED <<mutations, skipped, mounted, records, persisted, overlay, pendingUpdate, pendingReset,
                 loadCalls, loadCompleted, toasts>>

\* A save that reads the overlay again when dispatch resolves.
DispatchResolve_RereadsOverlay ==
  /\ pc = "dispatching"
  /\ CanPersist(changes)
  /\ persisted' = PersistChanges(persisted, SaveChanges(saveGroup))
  /\ overlay' = SyncOverlay(overlay, PersistChanges(persisted, SaveChanges(saveGroup)),
                            SaveChanges(saveGroup))
  /\ IF HasLanguage(changes)
       THEN /\ loadCalls' = Append(loadCalls, Lng(userLanguage, changes))
            /\ pc' = "loading"
            /\ toasts' = toasts
       ELSE /\ loadCalls' = loadCalls
            /\ pc' = "done"
            /\ toasts' = Append(toasts, "success")
  /\ UNCHANGED <<mutations, skipped, mounted, calls, made, changedAtInvoke, records, pendingUpdate, pendingReset,
                 saveGroup, userLanguage, changes, dispatched, loadCompleted>>

\* dispatch(changes) resolves: the batch is stored, then lines 140-150 run up
\* to the await of loadLanguage or to the success toast.
DispatchResolve ==
  /\ pc = "dispatching"
  /\ CanPersist(changes)
  /\ persisted' = PersistChanges(persisted, changes)
  /\ overlay' = SyncOverlay(overlay, PersistChanges(persisted, changes), changes)
  /\ IF HasLanguage(changes)
       THEN /\ loadCalls' = Append(loadCalls, Lng(userLanguage, changes))
            /\ pc' = "loading"
            /\ toasts' = toasts
       ELSE /\ loadCalls' = loadCalls
            /\ pc' = "done"
            /\ toasts' = Append(toasts, "success")
  /\ UNCHANGED <<mutations, skipped, mounted, calls, made, changedAtInvoke, records, pendingUpdate, pendingReset, saveGroup, userLanguage,
                 changes, dispatched, loadCompleted>>

\* A catch block that also reverts the overlay of the group.
DispatchReject_Reverts ==
  /\ pc = "dispatching"
  /\ pc' = "done"
  /\ toasts' = Append(toasts, "error")
  /\ overlay' = ApplyPatches(overlay, CancelPatches(saveGroup))
  /\ UNCHANGED <<mutations, skipped, mounted, calls, made, changedAtInvoke, records, persisted, pendingUpdate,
                 pendingReset, saveGroup, userLanguage, changes, dispatched, loadCalls,
                 loadCompleted>>

\* dispatch(changes) rejects: lines 151-153.
DispatchReject ==
  /\ pc = "dispatching"
  /\ pc' = "done"
  /\ toasts' = Append(toasts, "error")
  /\ UNCHANGED <<mutations, skipped, mounted, calls, made, changedAtInvoke, records, persisted, overlay, pendingUpdate, pendingReset,
                 saveGroup, userLanguage, changes, dispatched, loadCalls, loadCompleted>>

\* Lines 146-150 without the return of line 147: two success toasts.
LoadLanguageResolve_FallsThrough ==
  /\ pc = "loading"
  /\ loadCompleted' = loadCompleted + 1
  /\ pc' = "done"
  /\ toasts' = toasts \o <<"success", "success">>
  /\ UNCHANGED <<mutations, skipped, mounted, calls, made, changedAtInvoke, records, persisted, overlay,
                 pendingUpdate, pendingReset, saveGroup, userLanguage, changes,
                 dispatched, loadCalls>>

\* loadLanguage(lng) resolves: lines 146-147.
LoadLanguageResolve ==
  /\ pc = "loading"
  /\ loadCompleted' = loadCompleted + 1
  /\ pc' = "done"
  /\ toasts' = Append(toasts, "success")
  /\ UNCHANGED <<mutations, skipped, mounted, calls, made, changedAtInvoke, records, persisted, overlay, pendingUpdate, pendingReset,
                 saveGroup, userLanguage, changes, dispatched, loadCalls>>

\* loadLanguage(lng) rejects: the catch block, lines 151-153.
LoadLanguageReject ==
  /\ pc = "loading"
  /\ pc' = "done"
  /\ toasts' = Append(toasts, "error")
  /\ UNCHANGED <<mutations, skipped, mounted, calls, made, changedAtInvoke, records, persisted, overlay, pendingUpdate, pendingReset,
                 saveGroup, userLanguage, changes, dispatched, loadCalls, loadCompleted>>

\* The save() invocation has returned; the next one starts from scratch.
SaveReturn ==
  /\ pc = "done"
  /\ pc' = "idle"
  /\ changes' = << >>
  /\ dispatched' = << >>
  /\ loadCalls' = << >>
  /\ loadCompleted' = 0
  /\ toasts' = << >>
  /\ changedAtInvoke' = {}
  /\ saveGroup' = "General"
  /\ userLanguage' = Undefined
  /\ UNCHANGED <<mutations, skipped, mounted, calls, made, records, persisted, overlay, pendingUpdate, pendingReset>>

(* ---------------------------------------------------------------------- *)
(* Environment                                                             *)
(* ---------------------------------------------------------------------- *)

\* The external sync removes a persisted record (a setting or a group).
RemoveRecord(r) ==
  /\ r \in records
  /\ r \in Removable
  /\ Cardinality((IdSet \cup Groups) \ records) < MaxRemoved
  /\ records' = records \ {r}
  /\ UNCHANGED <<mutations, skipped, mounted, calls, made, persisted, overlay, pendingUpdate, pendingReset, saveVars>>

Next ==
  \/ \E id \in IdSet :
       \E value \in ValuesOf(id) \cup {Undefined}, editor \in EditorsOf(id) \cup {Undefined} :
         UpdateCall(id, value, editor)
  \/ \E id \in IdSet : UpdateFire(id)
  \/ \E id \in IdSet : ResetCall(id)
  \/ \E id \in IdSet : ResetFire(id)
  \/ \E id \in IdSet : Unmount(id)
  \/ \E id \in IdSet : SectionReset(GroupOf(id), SectionOf(id))
  \/ \E g \in Groups : Cancel(g)
  \/ \E g \in Groups, user \in UserLanguages : SaveInvoke(g, user)
  \/ DispatchResolve
  \/ DispatchReject
  \/ LoadLanguageResolve
  \/ LoadLanguageReject
  \/ SaveReturn
  \/ \E r \in Removable : RemoveRecord(r)

Spec == Init /\ [][Next]_vars

\* The timers of the debounced callbacks run: a timer that stays armed
\* fires. Nothing is assumed about the calls of the facades, about dispatch
\* or about loadLanguage.
FairSpec ==
  /\ Spec
  /\ \A id \in IdSet : WF_vars(UpdateFire(id)) /\ WF_vars(ResetFire(id))

(* ---------------------------------------------------------------------- *)
(* Properties                                                              *)
(* ---------------------------------------------------------------------- *)

\* No debounced update or reset is pending.
Quiescent == \A id \in IdSet : ~pendingUpdate[id].pending /\ ~pendingReset[id]

\* The members of a group as getSettingsGroup reports them.
Members(g) == IF g \in records THEN {id \in IdSet : GroupOf(id) = g} ELSE {}

\* The ids of a batch.
BatchIds(batch) == {batch[i]._id : i \in 1..Len(batch)}

\* The overlay entry of id differs from its persisted record.
Differs(id) ==
  overlay[id].value # persisted[id].value \/ overlay[id].editor # persisted[id].editor

\* C1: dirty invariant. At every quiescent point, for every setting with a
\* persisted record, changed is true iff the overlay (value, editor) differs
\* from the persisted (value, editor).
C1_DirtyInvariant ==
  Quiescent => \A id \in IdSet \cap records : overlay[id].changed <=> Differs(id)

\* C2: the batch save(g) submits holds exactly the members of g whose
\* changed flag is true when save is invoked, each once, projected to
\* {_id, value, editor} with the overlay's current value and editor; nothing
\* is submitted when there is none.
C2_SaveBatchExact ==
  [][(pc = "idle" /\ pc' # "idle") =>
       LET expected == {[_id |-> id, value |-> overlay[id].value, editor |-> overlay[id].editor] :
                          id \in {m \in Members(saveGroup') : overlay[m].changed}}
       IN /\ {changes'[i] : i \in 1..Len(changes')} = expected
          /\ Len(changes') = Cardinality(expected)
          /\ dispatched' = IF expected = {} THEN << >> ELSE <<changes'>>]_vars

\* A save of General in flight whose batch has one of the two members, while
\* a setting outside the group is changed too.
C2_Witness ==
  /\ pc = "dispatching"
  /\ saveGroup = "General"
  /\ Len(changes) = 1
  /\ dispatched = <<changes>>
  /\ "Other" \in changedAtInvoke

\* The step at which dispatch(changes) is reported to have succeeded.
DispatchSucceeded ==
  /\ pc = "dispatching"
  /\ pc' = "loading" \/ (pc' = "done" /\ toasts' = Append(toasts, "success"))

\* The step at which dispatch(changes) is reported to have failed.
DispatchFailed ==
  /\ pc = "dispatching"
  /\ pc' = "done"
  /\ toasts' = Append(toasts, "error")

\* C3: when the dispatch of save(g) succeeds, every member that was changed
\* at invocation was in the batch and has changed = false afterwards, and
\* every member that was unchanged at invocation was not in the batch and
\* keeps its overlay entry.
C3_SaveClearsChanged ==
  [][DispatchSucceeded =>
       \A id \in {m \in IdSet : GroupOf(m) = saveGroup} :
         /\ id \in changedAtInvoke =>
              id \in BatchIds(changes) /\ ~overlay'[id].changed
         /\ id \notin changedAtInvoke =>
              id \notin BatchIds(changes) /\ overlay'[id] = overlay[id]]_vars

\* A save of General succeeded with one member in the batch and one not; the
\* member of the batch is clean.
C3_Witness ==
  /\ pc = "done"
  /\ toasts = <<"success">>
  /\ saveGroup = "General"
  /\ Len(changes) = 1
  /\ \A id \in BatchIds(changes) : ~overlay[id].changed

\* C4: when dispatch fails, the failed save leaves every overlay entry
\* (value, editor, changed) as it was.
C4_FailureKeepsOverlay ==
  [][DispatchFailed => overlay' = overlay]_vars

\* A save failed and the edits of its batch are still in the overlay, dirty.
C4_Witness ==
  /\ pc = "done"
  /\ toasts = <<"error">>
  /\ loadCalls = << >>
  /\ changes # << >>
  /\ \A i \in 1..Len(changes) :
       /\ overlay[changes[i]._id].changed
       /\ overlay[changes[i]._id].value = changes[i].value

C6_ExactlyOneNotification ==
  pc = "done" => Len(toasts) = 1 /\ toasts[1] \in {"success", "error"}

\* C6 amended: a save(g) invocation that dispatched a batch has, once it has
\* ended, made exactly one notification, success or error and never both; an
\* invocation that found no changed member made none; no notification is
\* made before the invocation ends.
C6_OneNotificationPerDispatch ==
  /\ Len(toasts) <= 1
  /\ \A i \in 1..Len(toasts) : toasts[i] \in {"success", "error"}
  /\ pc = "done" => (Len(toasts) = 1 <=> dispatched # << >>)
  /\ pc # "done" => toasts = << >>

\* A save that dispatched a batch with Language and reloaded the locale has
\* ended with its single notification.
C6_Witness ==
  /\ pc = "done"
  /\ dispatched # << >>
  /\ loadCalls # << >>
  /\ Len(toasts) = 1

\* C7: an error notification is emitted only at the step at which dispatch
\* is reported to have failed; a save whose dispatch succeeded never reports
\* an error, whatever the locale reload does.
C7_ErrorOnlyOnDispatchFailure ==
  [][toasts' = Append(toasts, "error") => pc = "dispatching"]_vars

\* The batch has a Language entry; its value.
HasDispatchedLanguage == \E i \in 1..Len(changes) : changes[i]._id = "Language"
DispatchedLanguageValue ==
  IF HasDispatchedLanguage
    THEN changes[CHOOSE i \in 1..Len(changes) : changes[i]._id = "Language"].value
    ELSE Undefined

\* C8 as stated: a successful save whose batch has Language has made exactly
\* one loadLanguage call, completed before the success notification, whose
\* argument is the dispatched Language value when no user language is
\* supplied; a successful save without Language has made none.
C8_LanguageReload ==
  /\ Len(loadCalls) <= 1
  /\ loadCalls # << >> => HasDispatchedLanguage
  /\ (pc = "loading" \/ toasts = <<"success">>) =>
       (HasDispatchedLanguage <=> Len(loadCalls) = 1)
  /\ (toasts = <<"success">> /\ HasDispatchedLanguage) => loadCompleted = 1
  /\ (loadCalls # << >> /\ userLanguage \in {Undefined, ""}) =>
       loadCalls[1] = DispatchedLanguageValue

\* C8 amended: as C8, but the argument is the dispatched Language value only
\* when that value is non-empty, and the default tag 'en' when it is empty.
C8_LanguageReloadNonEmpty ==
  /\ Len(loadCalls) <= 1
  /\ loadCalls # << >> => HasDispatchedLanguage
  /\ (pc = "loading" \/ toasts = <<"success">>) =>
       (HasDispatchedLanguage <=> Len(loadCalls) = 1)
  /\ (toasts = <<"success">> /\ HasDispatchedLanguage) => loadCompleted = 1
  /\ (loadCalls # << >> /\ userLanguage \in {Undefined, ""}) =>
       loadCalls[1] = IF DispatchedLanguageValue = "" THEN "en" ELSE DispatchedLanguageValue

\* A save of Language = "pt" without a user language succeeded after one
\* completed reload of "pt".
C8_Witness ==
  /\ pc = "done"
  /\ toasts = <<"success">>
  /\ userLanguage = Undefined
  /\ HasDispatchedLanguage
  /\ DispatchedLanguageValue = "pt"
  /\ loadCalls = <<"pt">>
  /\ loadCompleted = 1

\* C9: the tag passed to loadLanguage is the user language if that is
\* non-empty, else the dispatched Language value if that is non-empty, else
\* 'en'.
C9_LanguagePriority ==
  \A i \in 1..Len(loadCalls) :
    /\ userLanguage \notin {Undefined, ""} => loadCalls[i] = userLanguage
    /\ (userLanguage \in {Undefined, ""} /\ DispatchedLanguageValue \notin {Undefined, ""}) =>
         loadCalls[i] = DispatchedLanguageValue
    /\ (userLanguage \in {Undefined, ""} /\ DispatchedLanguageValue \in {Undefined, ""}) =>
         loadCalls[i] = "en"

\* The user language won over a non-empty dispatched value.
C9_Witness ==
  /\ loadCalls = <<"fr">>
  /\ userLanguage = "fr"
  /\ HasDispatchedLanguage
  /\ DispatchedLanguageValue = "pt"

\* C10: a save submits the overlay as it was at invocation. The batch takes
\* the overlay values of the invocation (not a patch still pending), it does
\* not change while the invocation runs, what dispatch stores is that batch
\* and nothing else, and a pending update or reset can fire while dispatch
\* is in flight.
C10_SnapshotOnly ==
  [][/\ (pc = "idle" /\ pc' = "dispatching") =>
          \A i \in 1..Len(changes') :
            /\ changes'[i].value = overlay[changes'[i]._id].value
            /\ changes'[i].editor = overlay[changes'[i]._id].editor
     /\ (pc \in {"dispatching", "loading"}) =>
          /\ changes' = changes
          /\ dispatched' = dispatched
          /\ BatchIds(changes) = {id \in changedAtInvoke : GroupOf(id) = saveGroup}
     /\ DispatchSucceeded =>
          \A id \in IdSet :
            IF id \in BatchIds(changes)
              THEN \E i \in 1..Len(changes) :
                     /\ changes[i]._id = id
                     /\ persisted'[id] = [value |-> changes[i].value, editor |-> changes[i].editor]
              ELSE persisted'[id] = persisted[id]
     /\ (pc = "dispatching") =>
          \A id \in IdSet :
            /\ pendingUpdate[id].pending => ENABLED UpdateFire(id)
            /\ pendingReset[id] => ENABLED ResetFire(id)]_vars

\* While dispatch is in flight an update was applied to a member of the
\* batch: the overlay now differs from the batch.
C10_Witness ==
  /\ pc = "dispatching"
  /\ made[<<"update", "Language">>] = 2
  /\ made[<<"save", "General">>] = 1
  /\ calls = 3
  /\ Quiescent
  /\ \E i \in 1..Len(changes) : overlay[changes[i]._id].value # changes[i].value

\* The arguments update() can be called with for a setting.
UpdateArgs(id) ==
  {a \in (ValuesOf(id) \cup {Undefined}) \X (EditorsOf(id) \cup {Undefined}) :
     a[1] # Undefined \/ a[2] # Undefined}

\* The overlay entry of id after the mutation of an update(value, editor):
\* the fields the call gave replace the entry's, changed compares the call's
\* arguments with the persisted record.
Updated(id, value, editor) ==
  [value |-> IF value # Undefined THEN value ELSE overlay[id].value,
   editor |-> IF editor # Undefined THEN editor ELSE overlay[id].editor,
   changed |-> (persisted[id].value # value \/ persisted[id].editor # editor)]

\* The step is a call of the facade op for target.
Called(op, target) == made'[<<op, target>>] = made[<<op, target>>] + 1

\* C11 as stated: every burst of update(id, ...) calls ends in exactly one
\* overlay mutation, whatever the state of the record when the timer fires.
C11_BurstAlwaysMutates ==
  [][\A id \in IdSet : UpdateFire(id) => mutations' = mutations + 1]_vars

\* C11: debounce coalescing. A call of update(id, ...) mutates nothing and
\* leaves one pending effect holding the arguments of this call only; when
\* the timer fires with the record of id present, exactly one overlay
\* mutation is made, it reflects the arguments of the last call of the burst,
\* and nothing of the burst stays pending.
C11_Coalescing ==
  [][\A id \in IdSet :
       /\ Called("update", id) =>
            /\ overlay' = overlay
            /\ mutations' = mutations
            /\ \A a \in UpdateArgs(id) :
                 UpdateCall(id, a[1], a[2]) =>
                   pendingUpdate'[id] = [pending |-> TRUE, value |-> a[1], editor |-> a[2]]
       /\ (UpdateFire(id) /\ id \in records) =>
            /\ mutations' = mutations + 1
            /\ overlay' = [overlay EXCEPT ![id] =
                             Updated(id, pendingUpdate[id].value, pendingUpdate[id].editor)]
            /\ ~pendingUpdate'[id].pending]_vars

\* Three update calls on Language, and nothing else, ended in one mutation.
C11_Witness ==
  /\ made[<<"update", "Language">>] = 3
  /\ calls = 3
  /\ mutations = 1
  /\ Quiescent
  /\ mounted["Language"]
  /\ "Language" \in records
  /\ overlay["Language"].changed

\* C12: when the owner of the debounced facades of a setting unsubscribes,
\* the pending update and reset timers of that setting are cancelled without
\* an overlay mutation, and no timer of that setting fires after the owner
\* has stopped observing.
C12_TeardownCancels ==
  [][\A id \in IdSet :
       /\ Unmount(id) =>
            /\ ~pendingUpdate'[id].pending
            /\ ~pendingReset'[id]
            /\ overlay' = overlay
            /\ mutations' = mutations
       /\ ~mounted[id] => ~UpdateFire(id) /\ ~ResetFire(id)]_vars

\* update was called on Language and its owner unsubscribed while the call
\* was pending: no mutation was made.
C12_Witness ==
  /\ made[<<"update", "Language">>] = 1
  /\ made[<<"unmount", "Language">>] = 1
  /\ calls = 2
  /\ ~mounted["Language"]
  /\ "Language" \in records
  /\ Quiescent
  /\ mutations = 0

\* The step changes the pending update or the pending reset of id.
TimerChanged(id) ==
  pendingUpdate'[id] # pendingUpdate[id] \/ pendingReset'[id] # pendingReset[id]

ResetResult(id) ==
  [value |-> PackageValue(id),
   editor |-> PackageEditor(id),
   changed |-> (PackageValue(id) # persisted[id].value
                \/ PackageEditor(id) # persisted[id].editor)]

\* C14: idempotent setting-level reset. When the only facade called so far
\* is reset(id), and each of its calls has made its own mutation (one, two or
\* more resets in sequence, the persisted record untouched), the overlay entry
\* of id is (packageValue, packageEditor) with changed false iff the package
\* defaults equal the persisted (value, editor), however many resets ran.
C14_ResetIdempotent ==
  \A id \in IdSet :
    (calls >= 1 /\ made[<<"reset", id>>] = calls /\ mutations = calls /\ Quiescent) =>
      overlay[id] = ResetResult(id)

\* reset("Color") ran twice in sequence; package (red) differs from the
\* persisted value (blue).
C14_Witness ==
  /\ made[<<"reset", "Color">>] = 2
  /\ calls = 2
  /\ mutations = 2
  /\ Quiescent
  /\ overlay["Color"] = [value |-> "red", editor |-> "color", changed |-> TRUE]

\* The sections the section-level reset is called for.
Sections == {<<GroupOf(id), SectionOf(id)>> : id \in IdSet}

\* C15: the section-level reset acts in the step of its call, with no timer:
\* every enabled member of the section gets (value, editor) = (packageValue,
\* packageEditor); every disabled member of the section and every setting
\* outside the section keeps its value, editor and changed flag.
C15_SectionReset ==
  [][\A gs \in Sections :
       (SectionReset(gs[1], gs[2]) /\ gs[1] \in records) =>
         /\ mutations' = mutations + 1
         /\ pendingUpdate' = pendingUpdate
         /\ pendingReset' = pendingReset
         /\ \A id \in IdSet :
              IF GroupOf(id) = gs[1] /\ SectionOf(id) = gs[2] /\ ~Disabled(id)
                THEN /\ overlay'[id].value = PackageValue(id)
                     /\ overlay'[id].editor = PackageEditor(id)
                ELSE overlay'[id] = overlay[id]]_vars

\* The section of Language and Color was reset: Language, persisted as "pt",
\* holds its package value; the disabled Color, which differs from its
\* package value, and Other, outside the section, are as they were.
C15_Witness ==
  /\ made[<<"sectionReset", "General">>] = 1
  /\ calls = 1
  /\ mutations = 1
  /\ persisted["Language"].value = "pt"
  /\ overlay["Language"].value = PackageValue("Language")
  /\ overlay["Color"] = Seeded(persisted["Color"])
  /\ overlay["Color"].value # PackageValue("Color")
  /\ overlay["Other"] = Seeded(persisted["Other"])

\* Group g is absent or none of its members has changed = true.
NothingToSave(g) ==
  g \notin records \/ \A id \in IdSet : GroupOf(id) = g => ~overlay[id].changed

\* C16: a save(g) invoked when g is absent or has no changed member returns
\* at once: nothing is dispatched, no language is loaded, no notification is
\* emitted, and the overlay and the persisted records are left as they are.
C16_SaveNoOp ==
  [][\A g \in Groups :
       (Called("save", g) /\ NothingToSave(g)) =>
         /\ pc' = "done"
         /\ dispatched' = << >>
         /\ loadCalls' = << >>
         /\ toasts' = << >>
         /\ overlay' = overlay
         /\ persisted' = persisted]_vars

\* save("General") returned without a batch although Language is changed:
\* the record of the group is gone.
C16_Witness ==
  /\ made[<<"save", "General">>] = 1
  /\ pc = "done"
  /\ saveGroup = "General"
  /\ "General" \notin records
  /\ overlay["Language"].changed
  /\ changes = << >>
  /\ dispatched = << >>
  /\ loadCalls = << >>
  /\ toasts = << >>

\* The changed members of g as cancel(g) sees them.
ChangedMembers(g) == {id \in Members(g) : overlay[id].changed}

\* C17: cancel(g) always completes; for a changed member whose persisted
\* record is missing it emits no patch carrying the member's id and leaves
\* the member's overlay entry as it is, and every other changed member of g
\* is reverted to its persisted (value, editor) with changed = false.
C17_CancelSkipsMissing ==
  [][\A g \in Groups :
       Cancel(g) =>
         /\ \A id \in ChangedMembers(g) \ records :
              /\ overlay'[id] = overlay[id]
              /\ \A i \in 1..Len(CancelPatches(g)) : CancelPatches(g)[i]._id # id
         /\ skipped' = skipped + Cardinality(ChangedMembers(g) \ records)
         /\ \A id \in ChangedMembers(g) \cap records :
              overlay'[id] = Seeded(persisted[id])
         /\ DOMAIN overlay' = DOMAIN overlay]_vars

\* reset then cancel on General with the changed Color without a record:
\* Color was skipped and is still changed, Language is reverted to "pt".
C17_Witness ==
  /\ made[<<"reset", "Language">>] = 1
  /\ made[<<"update", "Color">>] = 1
  /\ made[<<"cancel", "General">>] = 1
  /\ calls = 3
  /\ mutations = 3
  /\ skipped = 1
  /\ "Color" \notin records
  /\ overlay["Color"].changed
  /\ persisted["Language"].value = "pt"
  /\ overlay["Language"] = Seeded(persisted["Language"])

\* C18: a debounced update or setting-level reset of id whose persisted
\* record does not exist when its timer fires is dropped: the overlay is left
\* as it is and nothing is handed to dispatchToEditableSettings. The call
\* itself does not look at the record: it arms the timer in any case.
C18_DroppedWithoutRecord ==
  [][\A id \in IdSet :
       /\ ((UpdateFire(id) \/ ResetFire(id)) /\ id \notin records) =>
            /\ overlay' = overlay
            /\ mutations' = mutations
            /\ skipped' = skipped
       /\ Called("update", id) => pendingUpdate'[id].pending
       /\ Called("reset", id) => pendingReset'[id]]_vars

\* update was called once on Color, its owner is still subscribed, the timer
\* has fired, and no mutation was made: the record of Color is gone.
C18_Witness ==
  /\ made[<<"update", "Color">>] = 1
  /\ calls = 1
  /\ mounted["Color"]
  /\ Quiescent
  /\ mutations = 0
  /\ "Color" \notin records
  /\ overlay["Color"] = Seeded(persisted["Color"])

\* The enabled members of a section.
EnabledMembers(g, s) ==
  {id \in IdSet : GroupOf(id) = g /\ SectionOf(id) = s /\ ~Disabled(id)}

\* C19: the section-level reset sets changed of each enabled member to true
\* exactly when the member's overlay (value, editor) just before the reset
\* differed from (packageValue, packageEditor), whatever the persisted record
\* holds; so when nothing but section resets of g ran, two or more in
\* sequence, every enabled member of the section has changed = false.
C19_SectionResetChanged ==
  [][\A gs \in Sections :
       /\ (SectionReset(gs[1], gs[2]) /\ gs[1] \in records) =>
            \A id \in EnabledMembers(gs[1], gs[2]) :
              overlay'[id].changed <=>
                (overlay[id].value # PackageValue(id) \/ overlay[id].editor # PackageEditor(id))
       /\ (calls' >= 2 /\ made'[<<"sectionReset", gs[1]>>] = calls' /\ mutations' = calls') =>
            \A id \in EnabledMembers(gs[1], gs[2]) : ~overlay'[id].changed]_vars

\* The section of Language was reset twice in sequence: Language holds its
\* package value with changed = false although the persisted value is "pt".
C19_Witness ==
  /\ made[<<"sectionReset", "General">>] = 2
  /\ calls = 2
  /\ mutations = 2
  /\ persisted["Language"].value = "pt"
  /\ overlay["Language"] = [value |-> "", editor |-> Undefined, changed |-> FALSE]

\* The update timer of id has fired with the owner subscribed and the
\* record present: only the firing empties the slot of a subscribed owner,
\* and with the record present the firing makes the mutation.
UpdateApplied(id) ==
  /\ ~pendingUpdate[id].pending
  /\ mounted[id]
  /\ id \in records

\* C20: liveness of debounced edits. A pending update of id is eventually
\* applied, unless the record of id is removed or the owner of the facade
\* unsubscribes; calls of save and cancel made in the meantime do not
\* prevent it.
C20_UpdateEventuallyApplied ==
  \A id \in IdSet :
    pendingUpdate[id].pending ~> (UpdateApplied(id) \/ id \notin records \/ ~mounted[id])

\* update("Other", "y") was applied although cancel("Layout") was called
\* before its timer fired: a cancel after it would have reverted the entry.
C20_Witness ==
  /\ made[<<"update", "Other">>] = 1
  /\ made[<<"cancel", "Layout">>] = 1
  /\ calls = 2
  /\ mutations = 2
  /\ UpdateApplied("Other")
  /\ overlay["Other"] = [value |-> "y", editor |-> Undefined, changed |-> TRUE]

====
